---------------------------- MODULE Spec2Model ----------------------------
(***************************************************************************)
(* A model of kedro's OmegaConfLoader (src/kedro/config/omegaconf_config.py)*)
(* : the lookup loader[key], the per-directory scan, parse, duplicate      *)
(* detection and merge, and the base -> run-environment composition.       *)
(*                                                                         *)
(* A file name is modelled by the text it starts with (head) and the rest  *)
(* of its stem; the glob component "catalog*" matches a name exactly when  *)
(* its head is "catalog".  Text that is cut or sorted (the key list of a   *)
(* duplicate-key message) is a sequence of character codes.                *)
(***************************************************************************)
EXTENDS Integers, Sequences, FiniteSets, TLC

VARIABLES
    fs,               \* the conf_source tree: for each config path, is it a directory and what it holds
    config_patterns,  \* self.config_patterns: logical key -> glob patterns
    data,             \* the UserDict table of explicitly assigned values (self.data)
    assigned,         \* history: the table as written by explicit assignment only
    last,             \* trace of the most recent lookup against the current loader state
    prev              \* history: key and outcome of the lookup before `last`

vars == <<fs, config_patterns, data, assigned, last, prev>>

----------------------------------------------------------------------------
(* Bounds *)

\* the largest number of entries the base directory holds
MaxBaseFiles == 3

----------------------------------------------------------------------------
(* Text *)

COMMA == 44
SPACE == 32
DOT == 46

\* a 51 character key: fifty 'x' then the character c
LongKey(c) == [i \in 1..51 |-> IF i = 51 THEN c ELSE 120]

\* the characters of each top-level key used by the fixtures
KeyChars ==
    [a |-> <<97>>, b |-> <<98>>, c |-> <<99>>, d |-> <<100>>, e |-> <<101>>,
     z |-> <<122>>, la |-> LongKey(97), lb |-> LongKey(98)]

\* Python's str comparison: lexicographic on code points, a proper prefix first
RECURSIVE LexLess(_, _)
LexLess(s, t) ==
    IF t = <<>> THEN FALSE
    ELSE IF s = <<>> THEN TRUE
    ELSE IF Head(s) # Head(t) THEN Head(s) < Head(t)
    ELSE LexLess(Tail(s), Tail(t))

Perms(S) ==
    {s \in [1..Cardinality(S) -> S] : \A i, j \in 1..Cardinality(S) : i # j => s[i] # s[j]}

\* sorted(keys)
Sorted(keys) ==
    CHOOSE s \in Perms(keys) :
        \A i, j \in 1..Len(s) : i < j => LexLess(KeyChars[s[i]], KeyChars[s[j]])

\* ", ".join(ks)
RECURSIVE Join(_)
Join(ks) ==
    IF ks = <<>> THEN <<>>
    ELSE IF Len(ks) = 1 THEN KeyChars[ks[1]]
    ELSE KeyChars[ks[1]] \o <<COMMA, SPACE>> \o Join(Tail(ks))

TruncateLimit == 100

\* if len(sorted_keys) > 100: sorted_keys = sorted_keys[:100] + "..."
Truncate(text) ==
    IF Len(text) > TruncateLimit
    THEN SubSeq(text, 1, TruncateLimit) \o <<DOT, DOT, DOT>>
    ELSE text

\* whether the text `part` occurs in `text`
Contains(text, part) ==
    \E i \in 0..(Len(text) - Len(part)) : SubSeq(text, i + 1, i + Len(part)) = part

----------------------------------------------------------------------------
(* Trees: a parsed document maps top-level keys to values; a value is a    *)
(* scalar or a nested mapping.                                             *)

EmptyTree == [k \in {} |-> 0]
Scalar(n) == [leaf |-> n]
Mapping(f) == [sub |-> f]
IsMapping(v) == "sub" \in DOMAIN v

\* OmegaConf.merge on one value: nested mappings are combined, else the right one wins
MergeValue(v, w) ==
    IF IsMapping(v) /\ IsMapping(w)
    THEN Mapping([s \in DOMAIN v.sub \cup DOMAIN w.sub |->
                     IF s \in DOMAIN w.sub THEN w.sub[s] ELSE v.sub[s]])
    ELSE w

\* OmegaConf.merge(t, u): deep merge, the rightmost wins on leaves
OmegaMerge(t, u) ==
    [k \in DOMAIN t \cup DOMAIN u |->
        IF k \notin DOMAIN u THEN t[k]
        ELSE IF k \notin DOMAIN t THEN u[k]
        ELSE MergeValue(t[k], u[k])]

\* OmegaConf.merge(*trees), left to right
RECURSIVE OmegaMergeAll(_)
OmegaMergeAll(trees) ==
    IF trees = <<>> THEN EmptyTree
    ELSE IF Len(trees) = 1 THEN trees[1]
    ELSE OmegaMerge(OmegaMergeAll(SubSeq(trees, 1, Len(trees) - 1)), trees[Len(trees)])

----------------------------------------------------------------------------
(* Files *)

Name(h, r) == [head |-> h, rest |-> r]

\* a document that parses to tree t
Parsed(t) == [ok |-> TRUE, tree |-> t, line |-> 0, col |-> 0]
\* a document whose first offending token is at line l, column c (both counted from 1)
Malformed(l, c) == [ok |-> FALSE, tree |-> EmptyTree, line |-> l, col |-> c]

RegularFile(path, suffix, doc) == [path |-> path, isfile |-> TRUE, suffix |-> suffix, doc |-> doc]
Directory(path, suffix) ==
    [path |-> path, isfile |-> FALSE, suffix |-> suffix, doc |-> Parsed(EmptyTree)]

\* the entries of a directory tree: the given ones and the directories above them
Entries(files) ==
    files \cup UNION {{Directory(SubSeq(f.path, 1, n), "") : n \in 1..(Len(f.path) - 1)} : f \in files}

\* the path of entry f of config path dir, as it appears in messages
FilePath(dir, f) == [dir |-> dir, rel |-> f.path]

----------------------------------------------------------------------------
(* PathResolver: glob expansion, deduplication, filtering *)

RecursiveWildcard == [wild |-> "**"]
Prefix(key) == [wild |-> "*", head |-> key]

\* ["name*", "name*/**", "**/name*"]
DefaultPatterns(key) ==
    << <<Prefix(key)>>, <<Prefix(key), RecursiveWildcard>>, <<RecursiveWildcard, Prefix(key)>> >>

\* glob with recursive=True: "**" stands for zero or more directories (and, in last
\* place, for everything below); every component but the last must be a directory.
\* No name of the model starts with a dot (glob's wildcards skip hidden entries).
RECURSIVE GlobMatch(_, _, _)
GlobMatch(pattern, path, isdir) ==
    IF pattern = <<>> THEN path = <<>>
    ELSE IF Head(pattern).wild = "**"
    THEN \/ GlobMatch(Tail(pattern), path, isdir)
         \/ /\ path # <<>>
            /\ (Len(path) > 1 \/ isdir \/ Len(pattern) = 1)
            /\ GlobMatch(pattern, Tail(path), isdir)
    ELSE /\ path # <<>>
         /\ Head(path).head = Head(pattern).head
         /\ (Len(pattern) > 1 => (Len(path) > 1 \/ isdir))
         /\ GlobMatch(Tail(pattern), Tail(path), isdir)

\* iglob(f"{conf_path}/{pattern}", recursive=True), resolved
IGlob(files, pattern) ==
    {f \in Entries(files) : GlobMatch(pattern, f.path, ~f.isfile)}

\* path.is_file() and path.suffix in [".yml", ".yaml", ".json"]
IsValidConfigPath(f) == f.isfile /\ f.suffix \in {".yml", ".yaml", ".json"}

\* the list `paths`: one batch of matches per pattern, a path once per pattern matching it
Paths(files, patterns) == [i \in 1..Len(patterns) |-> IGlob(files, patterns[i])]

\* set(paths)
DeduplicatedPaths(files, patterns) == UNION {Paths(files, patterns)[i] : i \in 1..Len(patterns)}

\* config_files_filtered, as a set; the code iterates it in the set's own order
ConfigFilesFiltered(files, patterns) ==
    {f \in DeduplicatedPaths(files, patterns) : IsValidConfigPath(f)}

\* variant: the existence check is skipped
IsDirUnchecked(d) == TRUE

\* Path(conf_path).is_dir()
IsDir(d) == d.exists

----------------------------------------------------------------------------
(* FragmentLoader *)

\* PyYAML's problem_mark counts lines and columns from 0
ProblemMark(doc) == [line |-> doc.line - 1, column |-> doc.col - 1]

\* the ParserError raised for file f of config path dir
ParseFailure(dir, f) ==
    [kind |-> "ParserError", exc |-> "ParserError", file |-> FilePath(dir, f),
     line |-> ProblemMark(f.doc).line, column |-> ProblemMark(f.doc).column]

\* index of the first file of `order` that does not parse, 0 when all do
FirstBad(order) ==
    IF \E i \in 1..Len(order) : ~order[i].doc.ok
    THEN CHOOSE i \in 1..Len(order) :
            ~order[i].doc.ok /\ \A j \in 1..(i - 1) : order[j].doc.ok
    ELSE 0

----------------------------------------------------------------------------
(* DuplicateKeyDetector *)

\* variant: the inner loop starts one file too late
FirstPartnerSkipping(i) == i + 2

\* variant: enumerate(filepaths) counted from 0, so filepaths[i:] starts at filepath1 itself
FirstPartnerSelf(i) == i

\* for i, filepath1 in enumerate(filepaths, 1): for filepath2 in filepaths[i:]
\* pairs filepaths[i] (counted from 1) with filepaths[i + 1] onwards
FirstPartner(i) == i + 1

\* the pairs the two loops visit, in the order they visit them
PairsVisited(n) ==
    LET all == [k \in 1..(n * n) |-> <<((k - 1) \div n) + 1, ((k - 1) % n) + 1>>]
        Visited(p) == p[2] >= FirstPartner(p[1])
    IN  SelectSeq(all, Visited)

\* one "Duplicate keys found in f1 and f2: keys" message
DuplicateMessage(dir, f, g) ==
    [f1 |-> FilePath(dir, f), f2 |-> FilePath(dir, g),
     keys |-> Truncate(Join(Sorted(DOMAIN f.doc.tree \cap DOMAIN g.doc.tree)))]

\* variant: no duplicate detection before the merge
CheckDuplicatesOff(dir, loaded) == <<>>

\* _check_duplicates: the messages collected, in order
CheckDuplicates(dir, loaded) ==
    LET Overlapping(p) == DOMAIN loaded[p[1]].doc.tree \cap DOMAIN loaded[p[2]].doc.tree # {}
        hits == SelectSeq(PairsVisited(Len(loaded)), Overlapping)
    IN  [k \in 1..Len(hits) |-> DuplicateMessage(dir, loaded[hits[k][1]], loaded[hits[k][2]])]

----------------------------------------------------------------------------
(* DirectoryMerger *)

\* variant: the first fragment is returned whenever there is one
MergeAggregateFirstOnly(trees) ==
    IF Len(trees) = 0 THEN EmptyTree ELSE trees[1]

\* the three return statements of load_and_merge_dir_config
MergeAggregate(trees) ==
    IF Len(trees) = 0 THEN EmptyTree
    ELSE IF Len(trees) = 1 THEN trees[1]
    ELSE OmegaMergeAll(trees)

Op(op, dir, rel) == [op |-> op, dir |-> dir, rel |-> rel]

\* load_and_merge_dir_config(conf_path, patterns), the filtered files iterated as `order`
LoadAndMergeDirConfig(dir, patterns, order) ==
    IF ~IsDir(fs[dir])
    THEN [status |-> "missing", loaded |-> <<>>, result |-> EmptyTree,
          error |-> [kind |-> "MissingConfigPath", exc |-> "MissingConfigException", path |-> dir],
          ops |-> <<Op("is_dir", dir, <<>>)>>]
    ELSE
      LET bad == FirstBad(order)
          parsedTo == IF bad = 0 THEN Len(order) ELSE bad
          loaded == IF bad = 0 THEN order ELSE SubSeq(order, 1, bad - 1)
          ops == <<Op("is_dir", dir, <<>>), Op("glob", dir, <<>>)>>
                    \o [i \in 1..parsedTo |-> Op("load", dir, order[i].path)]
          duplicates == CheckDuplicates(dir, loaded)
      IN  IF bad # 0
          THEN [status |-> "parse", loaded |-> loaded, result |-> EmptyTree,
                error |-> ParseFailure(dir, order[bad]), ops |-> ops]
          ELSE IF duplicates # <<>>
          THEN [status |-> "duplicates", loaded |-> loaded, result |-> EmptyTree,
                error |-> [kind |-> "DuplicateKey", exc |-> "ValueError", messages |-> duplicates],
                ops |-> ops]
          ELSE [status |-> "ok", loaded |-> loaded,
                result |-> MergeAggregate([i \in 1..Len(loaded) |-> loaded[i].doc.tree]),
                error |-> [kind |-> "none"], ops |-> ops]

\* a config path the lookup never reached
NotRun == [status |-> "notrun", loaded |-> <<>>, result |-> EmptyTree,
           error |-> [kind |-> "none"], ops |-> <<>>]
----------------------------------------------------------------------------
(* EnvironmentComposer and ConfigRegistry *)

\* variant: the two layers are deep-merged
UpdateDeep(config, env_config) == OmegaMerge(config, env_config)

\* config.update(env_config): every key of env replaces the base's value whole
Update(config, env_config) ==
    [k \in DOMAIN config \cup DOMAIN env_config |->
        IF k \in DOMAIN env_config THEN env_config[k] ELSE config[k]]

\* variant: the pattern table is consulted first
BypassUnregisteredOnly(key, table) == key \in DOMAIN table /\ key \notin DOMAIN config_patterns

\* `key in self`: the key has an explicitly assigned value
Bypass(key, table) == key \in DOMAIN table

\* variant: a successful lookup stores its result on the loader
TableCaching(key, table, outcome) ==
    IF outcome.kind = "ok"
    THEN [k \in DOMAIN table \cup {key} |-> IF k = key THEN outcome.tree ELSE table[k]]
    ELSE table

\* a lookup assigns nothing to self: the table of explicit values after loader[key]
TableAfterLookup(key, table, outcome) == table

Returned(tree) == [kind |-> "ok", tree |-> tree]

\* OmegaConfLoader.__getitem__(key) on the loader state `self`, each config path's
\* filtered files iterated in the order given
GetItem(key, self, baseOrder, envOrder) ==
    IF Bypass(key, self.data)
    THEN [outcome |-> Returned(self.data[key]), ops |-> <<>>, base |-> NotRun, env |-> NotRun]
    ELSE IF key \notin DOMAIN self.config_patterns
    THEN [outcome |-> [kind |-> "KeyError", exc |-> "KeyError", key |-> key],
          ops |-> <<>>, base |-> NotRun, env |-> NotRun]
    ELSE
      LET patterns == self.config_patterns[key]
          base == LoadAndMergeDirConfig("base", patterns, baseOrder)
          env == LoadAndMergeDirConfig("env", patterns, envOrder)
          config == Update(base.result, env.result)
      IN  IF base.status # "ok"
          THEN [outcome |-> base.error, ops |-> base.ops, base |-> base, env |-> NotRun]
          ELSE IF env.status # "ok"
          THEN [outcome |-> env.error, ops |-> base.ops \o env.ops, base |-> base, env |-> env]
          ELSE IF DOMAIN config = {}
          THEN [outcome |-> [kind |-> "MissingConfig", exc |-> "MissingConfigException",
                             paths |-> <<"base", "env">>, patterns |-> patterns],
                ops |-> base.ops \o env.ops, base |-> base, env |-> env]
          ELSE [outcome |-> Returned(config),
                ops |-> base.ops \o env.ops, base |-> base, env |-> env]

\* the orders in which one config path's filtered files can be iterated
Orders(dir, key, self) ==
    IF ~Bypass(key, self.data) /\ key \in DOMAIN self.config_patterns /\ fs[dir].exists
    THEN Perms(ConfigFilesFiltered(fs[dir].files, self.config_patterns[key]))
    ELSE {<<>>}

\* the environment's files are iterated only once the base pass has returned
EnvOrders(key, self, baseOrder) ==
    IF /\ ~Bypass(key, self.data)
       /\ key \in DOMAIN self.config_patterns
       /\ LoadAndMergeDirConfig("base", self.config_patterns[key], baseOrder).status = "ok"
    THEN Orders("env", key, self)
    ELSE {<<>>}

\* what a caller can tell two outcomes apart by: the tree, or the kind of error
Observable(outcome) ==
    [kind |-> outcome.kind, tree |-> IF outcome.kind = "ok" THEN outcome.tree ELSE EmptyTree]

----------------------------------------------------------------------------
(* The configuration sources the model is run on *)

CatalogName(rest) == Name("catalog", rest)

BaseFixtures ==
    { RegularFile(<<CatalogName("")>>, ".yml",
          Parsed([a |-> Scalar(1), b |-> Mapping([p |-> 1])])),
      RegularFile(<<CatalogName("_two")>>, ".yaml",
          Parsed([b |-> Mapping([q |-> 2]), la |-> Scalar(1), lb |-> Scalar(1)])),
      RegularFile(<<CatalogName("_three")>>, ".json",
          Parsed([c |-> Scalar(3), la |-> Scalar(2), lb |-> Scalar(2)])),
      RegularFile(<<CatalogName("_empty")>>, ".yml", Parsed(EmptyTree)),
      RegularFile(<<CatalogName("_bad")>>, ".yml", Malformed(1, 3)),
      RegularFile(<<Name("parameters", "")>>, ".yml", Parsed([a |-> Scalar(9)])) }

EnvFixtures ==
    { RegularFile(<<CatalogName("")>>, ".yml",
          Parsed([b |-> Mapping([q |-> 3]), c |-> Scalar(4)])),
      RegularFile(<<CatalogName("_extra")>>, ".yml",
          Parsed([c |-> Scalar(5), d |-> Scalar(6)])),
      RegularFile(<<CatalogName("_bad")>>, ".yaml", Malformed(2, 1)) }

\* nested layouts, entries that are not configuration files, names no pattern matches
GlobFixtures ==
    { RegularFile(<<CatalogName("")>>, ".yml",
          Parsed([a |-> Scalar(1), b |-> Mapping([p |-> 1])])),
      RegularFile(<<CatalogName("_x"), CatalogName("_c")>>, ".yaml",
          Parsed([b |-> Mapping([q |-> 2])])),
      RegularFile(<<Name("nested", ""), CatalogName("_b")>>, ".json", Parsed([c |-> Scalar(3)])),
      RegularFile(<<CatalogName("_x"), Name("a", "")>>, ".yml", Parsed([d |-> Scalar(4)])),
      RegularFile(<<Name("nested", ""), Name("deep", ""), CatalogName("_d")>>, ".yml",
          Parsed([e |-> Scalar(5)])),
      RegularFile(<<CatalogName("_notes")>>, ".txt", Parsed([a |-> Scalar(7)])),
      Directory(<<CatalogName("_dir")>>, ".yml"),
      RegularFile(<<Name("other", "")>>, ".yml", Parsed([a |-> Scalar(8)])) }

\* a config path: missing, or a directory holding some of `pool`
ConfigPaths(pool, max) ==
    {[exists |-> FALSE, files |-> {}]} \cup
    {[exists |-> TRUE, files |-> F] : F \in {G \in SUBSET pool : Cardinality(G) <= max}}

\* the keys looked up: one with default patterns, one with none
LookupKeys == {"catalog", "custom"}

\* the values assigned explicitly
AssignedValues == {[z |-> Scalar(0)]}

NoLookup == [key |-> "", outcome |-> [kind |-> "none"], ops |-> <<>>, base |-> NotRun, env |-> NotRun]
NoPrev == [key |-> "", seen |-> [kind |-> "none", tree |-> EmptyTree]]

----------------------------------------------------------------------------
(* The state machine *)

\* OmegaConfLoader.__init__ with no custom config_patterns
InitLoader ==
    /\ config_patterns = [k \in {"catalog", "parameters", "credentials", "logging"} |->
                             DefaultPatterns(k)]
    /\ data = EmptyTree
    /\ assigned = EmptyTree
    /\ last = NoLookup
    /\ prev = NoPrev

Init ==
    /\ fs \in [base : ConfigPaths(BaseFixtures, MaxBaseFiles),
               env : ConfigPaths(EnvFixtures, Cardinality(EnvFixtures))]
    /\ InitLoader

InitGlob ==
    /\ fs \in [base : ConfigPaths(GlobFixtures, MaxBaseFiles),
               env : ConfigPaths({f \in EnvFixtures : f.doc.ok /\ "d" \in DOMAIN f.doc.tree}, 1)]
    /\ InitLoader

\* loader[key] = value
SetItem(key, value) ==
    /\ data' = [k \in DOMAIN data \cup {key} |-> IF k = key THEN value ELSE data[k]]
    /\ assigned' = [k \in DOMAIN assigned \cup {key} |-> IF k = key THEN value ELSE assigned[k]]
    /\ last' = NoLookup
    /\ prev' = NoPrev
    /\ UNCHANGED <<fs, config_patterns>>

\* loader[key]
Lookup(key) ==
    LET self == [data |-> data, config_patterns |-> config_patterns]
    IN  \E baseOrder \in Orders("base", key, self) :
        \E envOrder \in EnvOrders(key, self, baseOrder) :
          LET r == GetItem(key, self, baseOrder, envOrder)
          IN  /\ last' = [key |-> key, outcome |-> r.outcome, ops |-> r.ops,
                          base |-> r.base, env |-> r.env]
              /\ data' = TableAfterLookup(key, data, r.outcome)
              /\ prev' = IF last = NoLookup THEN NoPrev
                         ELSE [key |-> last.key, seen |-> Observable(last.outcome)]
              /\ UNCHANGED <<fs, config_patterns, assigned>>

Next ==
    \/ \E key \in LookupKeys, value \in AssignedValues : SetItem(key, value)
    \/ \E key \in LookupKeys : Lookup(key)

Spec == Init /\ [][Next]_vars

SpecGlob == InitGlob /\ [][Next]_vars

----------------------------------------------------------------------------
(* Properties *)

Dirs == {"base", "env"}
PassOf(d) == IF d = "base" THEN last.base ELSE last.env
Keys(f) == DOMAIN f.doc.tree

\* the last lookup went through the pattern machinery
ColdLookup ==
    /\ last # NoLookup
    /\ last.key \in DOMAIN config_patterns
    /\ last.key \notin DOMAIN data

\* the pairs of fragments of pass p that share a top-level key
Colliding(p) ==
    {pr \in (1..Len(p.loaded)) \X (1..Len(p.loaded)) :
        pr[1] < pr[2] /\ Keys(p.loaded[pr[1]]) \cap Keys(p.loaded[pr[2]]) # {}}

\* the messages of the last outcome that are about the fragments pr of directory d
MessagesAbout(d, p, pr) ==
    {m \in 1..Len(last.outcome.messages) :
        {last.outcome.messages[m].f1, last.outcome.messages[m].f2}
            = {FilePath(d, p.loaded[pr[1]]), FilePath(d, p.loaded[pr[2]])}}

\* C1 as stated: whenever two fragments loaded from one directory share a top-level
\* key, the lookup fails with a duplicate-key error holding exactly one message for
\* that pair, which names both paths and every shared key.
C1_EveryCollisionNamed ==
    \A d \in Dirs : \A pr \in Colliding(PassOf(d)) :
        /\ last.outcome.kind = "DuplicateKey"
        /\ Cardinality(MessagesAbout(d, PassOf(d), pr)) = 1
        /\ \A m \in MessagesAbout(d, PassOf(d), pr) :
             \A k \in Keys(PassOf(d).loaded[pr[1]]) \cap Keys(PassOf(d).loaded[pr[2]]) :
                Contains(last.outcome.messages[m].keys, KeyChars[k])

\* C1 amended: in a directory all of whose qualifying files parsed, colliding
\* fragments make the lookup fail with a duplicate-key error and no tree; the error
\* holds one message per colliding pair and no other, each naming both paths and
\* the shared keys sorted and joined by ", ", that text cut to its first 100
\* characters and followed by "..." when it is longer than 100 characters.
C1_CollisionsReported ==
    \A d \in Dirs :
        LET p == PassOf(d)
        IN  (p.status \in {"ok", "duplicates"} /\ Colliding(p) # {}) =>
              /\ p.status = "duplicates"
              /\ last.outcome = p.error
              /\ last.outcome.kind = "DuplicateKey"
              /\ Len(last.outcome.messages) = Cardinality(Colliding(p))
              /\ \A pr \in Colliding(p) :
                   /\ Cardinality(MessagesAbout(d, p, pr)) = 1
                   /\ \A m \in MessagesAbout(d, p, pr) :
                        LET shared == Keys(p.loaded[pr[1]]) \cap Keys(p.loaded[pr[2]])
                            joined == Join(Sorted(shared))
                            text == last.outcome.messages[m].keys
                        IN  IF Len(joined) <= 100
                            THEN /\ text = joined
                                 /\ \A k \in shared : Contains(text, KeyChars[k])
                            ELSE text = SubSeq(joined, 1, 100) \o <<DOT, DOT, DOT>>

\* two colliding pairs in one directory, one of them with a key list cut at 100 characters
C1_Witness ==
    /\ last.outcome.kind = "DuplicateKey"
    /\ Len(last.outcome.messages) = 2
    /\ Len(last.base.loaded) = 3
    /\ \E m \in 1..2 : Len(last.outcome.messages[m].keys) > 100
    /\ \E m \in 1..2 : Len(last.outcome.messages[m].keys) = 1

\* C2: a lookup that returns a composed tree returns the base directory's result
\* overlaid at the top level by the environment directory's: the keys are the
\* union, a key of the environment carries the environment's whole value, any
\* other key carries the base's value.
C2_EnvOverridesBase ==
    (ColdLookup /\ last.outcome.kind = "ok") =>
        LET b == last.base.result
            e == last.env.result
            t == last.outcome.tree
        IN  /\ DOMAIN t = DOMAIN b \cup DOMAIN e
            /\ \A k \in DOMAIN e : t[k] = e[k]
            /\ \A k \in DOMAIN b \ DOMAIN e : t[k] = b[k]

\* base {a, b: {p}} and environment {b: {q}, c}: a key on each side only and a
\* nested mapping on both
C2_Witness ==
    /\ ColdLookup
    /\ last.outcome.kind = "ok"
    /\ \E k \in DOMAIN last.base.result \cap DOMAIN last.env.result :
         /\ IsMapping(last.base.result[k]) /\ IsMapping(last.env.result[k])
         /\ last.base.result[k] # last.env.result[k]
    /\ DOMAIN last.base.result \ DOMAIN last.env.result # {}
    /\ DOMAIN last.env.result \ DOMAIN last.base.result # {}

\* C3: a directory whose fragments have pairwise disjoint top-level key sets merges
\* to a tree whose keys are the union of the fragments' keys, each key with the
\* value of the one fragment that has it.
C3_DisjointMergeIsUnion ==
    \A d \in Dirs :
        LET p == PassOf(d)
        IN  (p.status \in {"ok", "duplicates"} /\ Colliding(p) = {}) =>
              /\ p.status = "ok"
              /\ DOMAIN p.result = UNION {Keys(p.loaded[i]) : i \in 1..Len(p.loaded)}
              /\ \A i \in 1..Len(p.loaded) : \A k \in Keys(p.loaded[i]) :
                    p.result[k] = p.loaded[i].doc.tree[k]

\* three fragments, two of them with keys, merged
C3_Witness ==
    /\ last.base.status = "ok"
    /\ Len(last.base.loaded) = 3
    /\ Cardinality({i \in 1..3 : Keys(last.base.loaded[i]) # {}}) >= 2
    /\ last.env.status = "ok"
    /\ Len(last.env.loaded) = 1

\* C4 as stated: with either config path missing, the lookup fails with the
\* missing-path error naming a missing path, whatever the other directory holds
\* (the existence checks coming before every glob, parse and duplicate detection).
C4_MissingPathWhateverElse ==
    (ColdLookup /\ (~fs.base.exists \/ ~fs.env.exists)) =>
        /\ last.outcome.kind = "MissingConfigPath"
        /\ ~fs[last.outcome.path].exists

\* C4 amended: each config path is checked when its own pass starts, before its own
\* glob, parse and duplicate detection.  A missing base fails the lookup with the
\* missing-path error naming base whatever the environment holds, nothing scanned.
\* With base present and the environment missing, the base pass runs first: a parse
\* or duplicate-key error of base is the outcome, otherwise the missing-path error
\* naming the environment, nothing of the environment scanned.
C4_MissingPathPerDirectory ==
    ColdLookup =>
        /\ ~fs.base.exists =>
              /\ last.outcome.kind = "MissingConfigPath"
              /\ last.outcome.path = "base"
              /\ last.ops = <<Op("is_dir", "base", <<>>)>>
        /\ (fs.base.exists /\ ~fs.env.exists) =>
              IF last.base.status = "ok"
              THEN /\ last.outcome.kind = "MissingConfigPath"
                   /\ last.outcome.path = "env"
                   /\ \A i \in 1..Len(last.ops) :
                        last.ops[i].dir = "env" => last.ops[i].op = "is_dir"
              ELSE /\ last.outcome = last.base.error
                   /\ last.outcome.kind \in {"ParserError", "DuplicateKey"}
                   /\ \A i \in 1..Len(last.ops) : last.ops[i].dir = "base"

\* base missing while the environment directory holds matching fragments
C4_Witness ==
    /\ ColdLookup
    /\ ~fs.base.exists
    /\ \E f \in fs.env.files : f.doc.ok /\ Keys(f) # {}
    /\ last.outcome.kind = "MissingConfigPath"

\* C5 as stated: with both directories present and no parse or duplicate-key error,
\* the lookup fails with the missing-configuration error exactly when no fragment
\* was loaded in either layer.
C5_MissingConfigIffNoFragment ==
    (/\ ColdLookup
     /\ fs.base.exists /\ fs.env.exists
     /\ last.outcome.kind \notin {"ParserError", "DuplicateKey"}) =>
        (last.outcome.kind = "MissingConfig"
            <=> (Len(last.base.loaded) = 0 /\ Len(last.env.loaded) = 0))

\* C6: a lookup of a key with an explicitly assigned value returns that value and
\* touches no file or directory, whether or not the key has patterns and whatever
\* the config paths are.
C6_ExplicitValueBypasses ==
    (last # NoLookup /\ last.key \in DOMAIN data) =>
        /\ last.outcome = Returned(data[last.key])
        /\ last.ops = <<>>

\* a key with patterns, assigned explicitly, looked up with the base path missing
C6_Witness ==
    /\ last # NoLookup
    /\ last.key \in DOMAIN data
    /\ last.key \in DOMAIN config_patterns
    /\ ~fs.base.exists
    /\ "custom" \in DOMAIN data

\* C7: the same lookup issued twice in a row against the same files and loader has
\* the same outcome (the same tree, or the same kind of error), whatever order each
\* of the two enumerated the files in.
C7_RepeatedLookupAgrees ==
    (last # NoLookup /\ prev.key = last.key) => prev.seen = Observable(last.outcome)

\* a lookup repeated on a directory with several fragments
C7_Witness ==
    /\ last # NoLookup
    /\ prev.key = last.key
    /\ Len(last.base.loaded) = 3
    /\ Cardinality({i \in 1..3 : Keys(last.base.loaded[i]) # {}}) = 2
    /\ last.outcome.kind = "ok"
    /\ prev.seen = Observable(last.outcome)

\* C8 as stated: a parse error reports the line and column of the offending token
\* counted from 1.
C8_OneBasedPosition ==
    last.outcome.kind = "ParserError" =>
        \E f \in fs[last.outcome.file.dir].files :
            /\ FilePath(last.outcome.file.dir, f) = last.outcome.file
            /\ last.outcome.line = f.doc.line
            /\ last.outcome.column = f.doc.col

\* the outcome of a lookup of key on the loader as explicit assignment left it
FreshOutcome(key) ==
    LET self == [data |-> assigned,
                 config_patterns |-> [k \in {"catalog", "parameters", "credentials", "logging"}
                                         |-> DefaultPatterns(k)]]
    IN  GetItem(key, self,
                CHOOSE o \in Orders("base", key, self) : TRUE,
                CHOOSE o \in Orders("env", key, self) : TRUE).outcome

\* C9: a lookup, returning or failing, leaves the pattern table and the table of
\* explicit values as they were, so the outcome of any lookup is the one it would
\* have had on the loader as construction and explicit assignment left it.
C9_LookupLeavesTables ==
    /\ [][last' # NoLookup => (data' = data /\ config_patterns' = config_patterns)]_vars
    /\ [](last # NoLookup =>
            Observable(last.outcome) = Observable(FreshOutcome(last.key)))

\* a failed lookup of one key followed by a successful lookup of another
C9_Witness ==
    /\ last # NoLookup
    /\ prev.key = "custom"
    /\ prev.seen.kind = "KeyError"
    /\ last.key = "catalog"
    /\ last.outcome.kind = "ok"
    /\ data = assigned

\* what the default patterns name*, name*/** and **/name* select, said of the path
Selected(f, key) ==
    \/ f.path[Len(f.path)].head = key
    \/ Len(f.path) > 1 /\ f.path[1].head = key

Qualifying(d, key) ==
    {f \in fs[d].files :
        f.isfile /\ f.suffix \in {".yml", ".yaml", ".json"} /\ Selected(f, key)}

\* C10: in a directory pass every regular .yml, .yaml or .json file the patterns
\* select is loaded once, however many patterns select it, and nothing else is
\* loaded; no duplicate-key message pairs a file with itself, and a directory with
\* a single such file raises no duplicate-key error.
C10_OneFragmentPerFile ==
    ColdLookup =>
        /\ \A d \in Dirs :
             LET p == PassOf(d)
             IN  /\ \A i, j \in 1..Len(p.loaded) : i # j => p.loaded[i] # p.loaded[j]
                 /\ {p.loaded[i] : i \in 1..Len(p.loaded)} \subseteq Qualifying(d, last.key)
                 /\ p.status \in {"ok", "duplicates"} =>
                       {p.loaded[i] : i \in 1..Len(p.loaded)} = Qualifying(d, last.key)
                 /\ Cardinality(Qualifying(d, last.key)) <= 1 => p.status # "duplicates"
        /\ last.outcome.kind = "DuplicateKey" =>
             \A m \in 1..Len(last.outcome.messages) :
                last.outcome.messages[m].f1 # last.outcome.messages[m].f2

\* a file two patterns select, loaded beside entries that are selected but are not
\* configuration files
C10_Witness ==
    /\ ColdLookup
    /\ last.outcome.kind = "ok"
    /\ \E i \in 1..Len(last.base.loaded) :
         /\ Keys(last.base.loaded[i]) # {}
         /\ Cardinality({n \in 1..Len(config_patterns[last.key]) :
                last.base.loaded[i] \in Paths(fs.base.files, config_patterns[last.key])[n]}) >= 2
    /\ \E f \in Entries(fs.base.files) :
         /\ f \in DeduplicatedPaths(fs.base.files, config_patterns[last.key])
         /\ ~IsValidConfigPath(f)
============================================================================
